---- MODULE Spec2Model ----
(***************************************************************************)
(* MODEL_CONVERTER.py: the command-line driver that loads an ONNX model,   *)
(* downgrades its opset when it is above the target, simplifies it,        *)
(* validates it, saves it and reports the file sizes.  The libraries       *)
(* (onnx, onnx.version_converter, onnxsim, os.path) are black boxes: each  *)
(* call either raises or returns, and what it returns is drawn from a      *)
(* small set.                                                              *)
(***************************************************************************)
EXTENDS Integers, Sequences, FiniteSets, TLC

VARIABLES
    sys_argv,       \* sys.argv: <<script, positional arguments...>>
    fs,             \* the file system: path -> file content
    fs0,            \* the file system as it was when the process started
    pc,             \* the statement the interpreter is at
    input_path,     \* __main__ / convert_model: input_path
    output_path,    \* __main__ / convert_model: output_path
    target_opset,   \* __main__ / convert_model: target_opset
    model,          \* convert_model: model
    current_opset,  \* convert_model: current_opset
    input_size,     \* convert_model: input_size (bytes; the code divides by 1024*1024)
    output_size,    \* convert_model: output_size (bytes; the code divides by 1024*1024)
    stdout,         \* the lines printed so far, one tag per print statement
    stderr,         \* the interpreter's traceback of an uncaught exception
    exit_code,      \* the process exit status, meaningful once pc = "exited"
    calls           \* the library calls made so far, in order, with arguments and outcome

vars == <<sys_argv, fs, fs0, pc, input_path, output_path, target_opset, model,
          current_opset, input_size, output_size, stdout, stderr, exit_code, calls>>

----------------------------------------------------------------------------
(* Bounds of the model *)

MinOpset == 13
MaxOpset == 15
MaxImports == 2
MaxSize == 2

(* Program constant: the default target opset *)
DefaultOpset == 14

Versions == MinOpset..MaxOpset
Sizes == 1..MaxSize

InFile == "in.onnx"
OutFile == "out.onnx"
Paths == {InFile, OutFile}

----------------------------------------------------------------------------
(* Values *)

\* No model bound to the local yet / no file at a path.
NoModel == [kind |-> "none", opset_import |-> <<>>, graph |-> <<>>, size |-> 0]

\* A file that is not a parseable model container.
JunkFile == [kind |-> "junk", opset_import |-> <<>>, graph |-> <<>>, size |-> 1]

\* opset_import lists: the first entry is the one the driver reads; further
\* entries declare other operator domains.
OpsetImports ==
    {<<>>} \cup
    { <<v>> \o [i \in 1..n |-> 1] : v \in Versions, n \in 0..(MaxImports - 1) }

\* Model files that can be on disk before the run.
ModelFiles ==
    { [kind |-> "model", opset_import |-> oi, graph |-> <<>>, size |-> sz] :
        oi \in OpsetImports, sz \in Sizes }

\* The third positional argument as typed, character by character.
OpsetArgs ==
    { <<"1", "3">>, <<"1", "4">>, <<"1", "5">>, <<" ", "1", "5">>,
      <<"1", "_", "4">>, <<"-", "1">>, <<"x">>, <<>>, <<"1", "4", "_">> }

----------------------------------------------------------------------------
(* int(str): Python's integer parsing of a decimal literal *)

DigitVal ==
    ("0" :> 0) @@ ("1" :> 1) @@ ("2" :> 2) @@ ("3" :> 3) @@ ("4" :> 4) @@
    ("5" :> 5) @@ ("6" :> 6) @@ ("7" :> 7) @@ ("8" :> 8) @@ ("9" :> 9)

IsDigit(c) == c \in DOMAIN DigitVal

RECURSIVE LStrip(_)
LStrip(s) == IF s # <<>> /\ Head(s) = " " THEN LStrip(Tail(s)) ELSE s

RECURSIVE RStrip(_)
RStrip(s) ==
    IF s # <<>> /\ s[Len(s)] = " " THEN RStrip(SubSeq(s, 1, Len(s) - 1)) ELSE s

Strip(s) == RStrip(LStrip(s))

\* Digits, with single underscores allowed between digits only.
ValidDigits(s) ==
    /\ s # <<>>
    /\ IsDigit(s[1])
    /\ IsDigit(s[Len(s)])
    /\ \A i \in 1..Len(s) : IsDigit(s[i]) \/ s[i] = "_"
    /\ \A i \in 1..(Len(s) - 1) : ~(s[i] = "_" /\ s[i + 1] = "_")

RECURSIVE DigitsValue(_, _)
DigitsValue(s, acc) ==
    IF s = <<>> THEN acc
    ELSE IF Head(s) = "_" THEN DigitsValue(Tail(s), acc)
    ELSE DigitsValue(Tail(s), 10 * acc + DigitVal[Head(s)])

\* [ok |-> FALSE] stands for ValueError.
ParseInt(s) ==
    LET t == Strip(s)
        signed == t # <<>> /\ Head(t) \in {"+", "-"}
        body == IF signed THEN Tail(t) ELSE t
    IN  IF ValidDigits(body)
        THEN [ok |-> TRUE,
              val |-> IF signed /\ Head(t) = "-"
                      THEN 0 - DigitsValue(body, 0) ELSE DigitsValue(body, 0)]
        ELSE [ok |-> FALSE, val |-> 0]

----------------------------------------------------------------------------
(* The library calls, as the driver sees them *)

Call(fn, arg, tgt, ok, ret) ==
    [fn |-> fn, arg |-> arg, target |-> tgt, ok |-> ok, ret |-> ret]

\* version_converter.convert_version(model, target) when it returns.
ConvertedModel(m, tgt, sz) ==
    [m EXCEPT !.opset_import = <<tgt>> \o Tail(m.opset_import),
              !.graph = Append(m.graph, "converted"),
              !.size = sz]

\* onnxsim.simplify(model, ...) when it returns: the first element of the pair.
SimplifiedModel(m, sz) ==
    [m EXCEPT !.graph = Append(m.graph, "simplified"), !.size = sz]

\* Variant: the except clause prints the error and falls off the end of the
\* script (no sys.exit(1)).
HandlerNoExit(out) ==
    /\ stdout' = Append(out, "Error")
    /\ exit_code' = 0
    /\ pc' = "exited"

\* The except clause of __main__: print the error, exit 1.
Handler(out) ==
    /\ stdout' = Append(out, "Error")
    /\ exit_code' = 1
    /\ pc' = "exited"

----------------------------------------------------------------------------
Init ==
    /\ \E in_content \in {NoModel, JunkFile} \cup ModelFiles,
          out_content \in {NoModel, JunkFile} :
            fs = (InFile :> in_content) @@ (OutFile :> out_content)
    /\ fs0 = fs
    /\ \E out \in Paths, a \in OpsetArgs :
            sys_argv \in { <<"MODEL_CONVERTER.py">>,
                           <<"MODEL_CONVERTER.py", InFile>>,
                           <<"MODEL_CONVERTER.py", InFile, out>>,
                           <<"MODEL_CONVERTER.py", InFile, out, a>> }
    /\ pc = "main"
    /\ input_path = ""
    /\ output_path = ""
    /\ target_opset = 0
    /\ model = NoModel
    /\ current_opset = 0
    /\ input_size = 0
    /\ output_size = 0
    /\ stdout = <<>>
    /\ stderr = <<>>
    /\ exit_code = 0
    /\ calls = <<>>

----------------------------------------------------------------------------
(* __main__ *)

UsageError == Len(sys_argv) < 3

\* Variant: the usage branch ends with sys.exit() (status 0).
MainUsageExitZero ==
    /\ pc = "main"
    /\ UsageError
    /\ stdout' = stdout \o <<"Usage", "Example">>
    /\ exit_code' = 0
    /\ pc' = "exited"
    /\ UNCHANGED <<sys_argv, fs, fs0, input_path, output_path, target_opset, model,
                   current_opset, input_size, output_size, stderr, calls>>

\* Lines 87-91: too few arguments: print the usage text and exit 1.
MainUsage ==
    /\ pc = "main"
    /\ UsageError
    /\ stdout' = stdout \o <<"Usage", "Example">>
    /\ exit_code' = 1
    /\ pc' = "exited"
    /\ UNCHANGED <<sys_argv, fs, fs0, input_path, output_path, target_opset, model,
                   current_opset, input_size, output_size, stderr, calls>>

\* Lines 93-95, int() raising ValueError outside the try block: the
\* interpreter prints a traceback and exits with status 1.
MainBadOpset ==
    /\ pc = "main"
    /\ ~UsageError
    /\ Len(sys_argv) > 3
    /\ ~ParseInt(sys_argv[4]).ok
    /\ input_path' = sys_argv[2]
    /\ output_path' = sys_argv[3]
    /\ stderr' = Append(stderr, "Traceback: ValueError")
    /\ exit_code' = 1
    /\ pc' = "exited"
    /\ UNCHANGED <<sys_argv, fs, fs0, target_opset, model, current_opset,
                   input_size, output_size, stdout, calls>>

\* Lines 93-98: bind the arguments and enter convert_model.
MainArgs ==
    /\ pc = "main"
    /\ ~UsageError
    /\ Len(sys_argv) > 3 => ParseInt(sys_argv[4]).ok
    /\ input_path' = sys_argv[2]
    /\ output_path' = sys_argv[3]
    /\ target_opset' = IF Len(sys_argv) > 3 THEN ParseInt(sys_argv[4]).val
                       ELSE DefaultOpset
    /\ pc' = "load"
    /\ UNCHANGED <<sys_argv, fs, fs0, model, current_opset, input_size, output_size,
                   stdout, stderr, exit_code, calls>>

----------------------------------------------------------------------------
(* convert_model *)

\* Lines 29-30, onnx.load raising: no such file, or not a model container.
LoadRaises ==
    /\ pc = "load"
    /\ fs[input_path].kind # "model"
    /\ calls' = Append(calls, Call("load", NoModel, 0, FALSE, NoModel))
    /\ Handler(Append(stdout, "Loading"))
    /\ UNCHANGED <<sys_argv, fs, fs0, input_path, output_path, target_opset, model,
                   current_opset, input_size, output_size, stderr>>

\* Lines 29-30, onnx.load returning the deserialized model.
LoadOk ==
    /\ pc = "load"
    /\ fs[input_path].kind = "model"
    /\ model' = fs[input_path]
    /\ calls' = Append(calls, Call("load", NoModel, 0, TRUE, fs[input_path]))
    /\ stdout' = Append(stdout, "Loading")
    /\ pc' = "opset"
    /\ UNCHANGED <<sys_argv, fs, fs0, input_path, output_path, target_opset,
                   current_opset, input_size, output_size, stderr, exit_code>>

\* Line 33, model.opset_import[0] raising IndexError on an empty list.
OpsetRaises ==
    /\ pc = "opset"
    /\ model.opset_import = <<>>
    /\ Handler(stdout)
    /\ UNCHANGED <<sys_argv, fs, fs0, input_path, output_path, target_opset, model,
                   current_opset, input_size, output_size, stderr, calls>>

\* Lines 33-34: read the declared opset.
OpsetOk ==
    /\ pc = "opset"
    /\ model.opset_import # <<>>
    /\ current_opset' = model.opset_import[1]
    /\ stdout' = Append(stdout, "CurrentOpset")
    /\ pc' = "convert"
    /\ UNCHANGED <<sys_argv, fs, fs0, input_path, output_path, target_opset, model,
                   input_size, output_size, stderr, exit_code, calls>>

\* Variant: the comparison written with >=.
NeedsConversionGe == current_opset >= target_opset

\* Line 36: the comparison that decides the version-conversion step.
NeedsConversion == current_opset > target_opset

\* Lines 36-38 with the condition false: nothing happens.
ConvertSkip ==
    /\ pc = "convert"
    /\ ~NeedsConversion
    /\ pc' = "simplify"
    /\ UNCHANGED <<sys_argv, fs, fs0, input_path, output_path, target_opset, model,
                   current_opset, input_size, output_size, stdout, stderr,
                   exit_code, calls>>

\* Variant: the conversion wrapped in a tolerate-and-continue block like the
\* two steps after it.
ConvertRaisesTolerated ==
    /\ pc = "convert"
    /\ current_opset > target_opset
    /\ calls' = Append(calls, Call("convert_version", model, target_opset, FALSE, NoModel))
    /\ stdout' = Append(stdout, "Converting")
    /\ pc' = "simplify"
    /\ UNCHANGED <<sys_argv, fs, fs0, input_path, output_path, target_opset, model,
                   current_opset, input_size, output_size, stderr, exit_code>>

\* Lines 36-38, convert_version raising: the exception leaves convert_model.
ConvertRaises ==
    /\ pc = "convert"
    /\ NeedsConversion
    /\ calls' = Append(calls, Call("convert_version", model, target_opset, FALSE, NoModel))
    /\ Handler(Append(stdout, "Converting"))
    /\ UNCHANGED <<sys_argv, fs, fs0, input_path, output_path, target_opset, model,
                   current_opset, input_size, output_size, stderr>>

\* Lines 36-38, convert_version returning the converted model.
ConvertOk(sz) ==
    /\ pc = "convert"
    /\ NeedsConversion
    /\ model' = ConvertedModel(model, target_opset, sz)
    /\ calls' = Append(calls, Call("convert_version", model, target_opset, TRUE,
                                   ConvertedModel(model, target_opset, sz)))
    /\ stdout' = Append(stdout, "Converting")
    /\ pc' = "simplify"
    /\ UNCHANGED <<sys_argv, fs, fs0, input_path, output_path, target_opset,
                   current_opset, input_size, output_size, stderr, exit_code>>

\* Variant: no try block around the simplifier.
SimplifyRaisesPropagates ==
    /\ pc = "simplify"
    /\ calls' = Append(calls, Call("simplify", model, 0, FALSE, NoModel))
    /\ Handler(Append(stdout, "Simplifying"))
    /\ UNCHANGED <<sys_argv, fs, fs0, input_path, output_path, target_opset, model,
                   current_opset, input_size, output_size, stderr>>

\* Variant: a failed simplification goes straight to saving.
SimplifyRaisesSkipsValidation ==
    /\ pc = "simplify"
    /\ calls' = Append(calls, Call("simplify", model, 0, FALSE, NoModel))
    /\ stdout' = stdout \o <<"Simplifying", "CouldNotSimplify", "ContinuingNonSimplified">>
    /\ pc' = "save"
    /\ UNCHANGED <<sys_argv, fs, fs0, input_path, output_path, target_opset, model,
                   current_opset, input_size, output_size, stderr, exit_code>>

\* Lines 41-55, onnxsim.simplify raising: caught, the local keeps its value.
SimplifyRaises ==
    /\ pc = "simplify"
    /\ calls' = Append(calls, Call("simplify", model, 0, FALSE, NoModel))
    /\ stdout' = stdout \o <<"Simplifying", "CouldNotSimplify", "ContinuingNonSimplified">>
    /\ pc' = "validate"
    /\ UNCHANGED <<sys_argv, fs, fs0, input_path, output_path, target_opset, model,
                   current_opset, input_size, output_size, stderr, exit_code>>

\* Variant: the simplified model is adopted only when check is true.
SimplifyReturnsCheckGated(sz, check) ==
    /\ pc = "simplify"
    /\ model' = IF check THEN SimplifiedModel(model, sz) ELSE model
    /\ calls' = Append(calls, Call("simplify", model, 0, TRUE, SimplifiedModel(model, sz)))
    /\ stdout' = stdout \o <<"Simplifying",
                             IF check THEN "SimplifiedOk" ELSE "SimplifyIssues">>
    /\ pc' = "validate"
    /\ UNCHANGED <<sys_argv, fs, fs0, input_path, output_path, target_opset,
                   current_opset, input_size, output_size, stderr, exit_code>>

\* Lines 41-52, onnxsim.simplify returning (model, check).
SimplifyReturns(sz, check) ==
    /\ pc = "simplify"
    /\ model' = SimplifiedModel(model, sz)
    /\ calls' = Append(calls, Call("simplify", model, 0, TRUE, SimplifiedModel(model, sz)))
    /\ stdout' = stdout \o <<"Simplifying",
                             IF check THEN "SimplifiedOk" ELSE "SimplifyIssues">>
    /\ pc' = "validate"
    /\ UNCHANGED <<sys_argv, fs, fs0, input_path, output_path, target_opset,
                   current_opset, input_size, output_size, stderr, exit_code>>

\* Variant: no try block around the validator.
ValidateRaisesPropagates ==
    /\ pc = "validate"
    /\ calls' = Append(calls, Call("check_model", model, 0, FALSE, NoModel))
    /\ Handler(Append(stdout, "Validating"))
    /\ UNCHANGED <<sys_argv, fs, fs0, input_path, output_path, target_opset, model,
                   current_opset, input_size, output_size, stderr>>

\* Lines 58-63, onnx.checker.check_model raising: caught, warning printed.
ValidateRaises ==
    /\ pc = "validate"
    /\ calls' = Append(calls, Call("check_model", model, 0, FALSE, NoModel))
    /\ stdout' = stdout \o <<"Validating", "ValidationWarning">>
    /\ pc' = "save"
    /\ UNCHANGED <<sys_argv, fs, fs0, input_path, output_path, target_opset, model,
                   current_opset, input_size, output_size, stderr, exit_code>>

\* Lines 58-61, onnx.checker.check_model returning.
ValidateOk ==
    /\ pc = "validate"
    /\ calls' = Append(calls, Call("check_model", model, 0, TRUE, NoModel))
    /\ stdout' = stdout \o <<"Validating", "Valid">>
    /\ pc' = "save"
    /\ UNCHANGED <<sys_argv, fs, fs0, input_path, output_path, target_opset, model,
                   current_opset, input_size, output_size, stderr, exit_code>>

\* Lines 66-67, onnx.save raising: the output path is as it was, or holds a
\* truncated file.
SaveRaises(truncated) ==
    /\ pc = "save"
    /\ fs' = IF truncated THEN [fs EXCEPT ![output_path] = JunkFile] ELSE fs
    /\ calls' = Append(calls, Call("save", model, 0, FALSE, NoModel))
    /\ Handler(Append(stdout, "Saving"))
    /\ UNCHANGED <<sys_argv, fs0, input_path, output_path, target_opset, model,
                   current_opset, input_size, output_size, stderr>>

\* Variant: the model is saved to input_path.
SaveOkToInputPath ==
    /\ pc = "save"
    /\ fs' = [fs EXCEPT ![input_path] = model]
    /\ calls' = Append(calls, Call("save", model, 0, TRUE, NoModel))
    /\ stdout' = Append(stdout, "Saving")
    /\ pc' = "input_size"
    /\ UNCHANGED <<sys_argv, fs0, input_path, output_path, target_opset, model,
                   current_opset, input_size, output_size, stderr, exit_code>>

\* Lines 66-67, onnx.save returning: the model is on disk at output_path.
SaveOk ==
    /\ pc = "save"
    /\ fs' = [fs EXCEPT ![output_path] = model]
    /\ calls' = Append(calls, Call("save", model, 0, TRUE, NoModel))
    /\ stdout' = Append(stdout, "Saving")
    /\ pc' = "input_size"
    /\ UNCHANGED <<sys_argv, fs0, input_path, output_path, target_opset, model,
                   current_opset, input_size, output_size, stderr, exit_code>>

\* os.path.getsize(path) can return only for a file that is there.
CanStat(path) == fs[path].kind # "none"

\* Line 71, os.path.getsize(input_path) raising OSError.
InputSizeRaises ==
    /\ pc = "input_size"
    /\ calls' = Append(calls, Call("getsize_input", NoModel, 0, FALSE, NoModel))
    /\ Handler(stdout)
    /\ UNCHANGED <<sys_argv, fs, fs0, input_path, output_path, target_opset, model,
                   current_opset, input_size, output_size, stderr>>

\* Line 71, os.path.getsize(input_path) returning.
InputSizeOk ==
    /\ pc = "input_size"
    /\ CanStat(input_path)
    /\ input_size' = fs[input_path].size
    /\ calls' = Append(calls, Call("getsize_input", NoModel, 0, TRUE, NoModel))
    /\ pc' = "output_size"
    /\ UNCHANGED <<sys_argv, fs, fs0, input_path, output_path, target_opset, model,
                   current_opset, output_size, stdout, stderr, exit_code>>

\* Variant: a failed size read removes the output file before leaving.
OutputSizeRaisesCleansUp ==
    /\ pc = "output_size"
    /\ fs' = [fs EXCEPT ![output_path] = NoModel]
    /\ calls' = Append(calls, Call("getsize_output", NoModel, 0, FALSE, NoModel))
    /\ Handler(stdout)
    /\ UNCHANGED <<sys_argv, fs0, input_path, output_path, target_opset, model,
                   current_opset, input_size, output_size, stderr>>

\* Line 72, os.path.getsize(output_path) raising OSError.
OutputSizeRaises ==
    /\ pc = "output_size"
    /\ calls' = Append(calls, Call("getsize_output", NoModel, 0, FALSE, NoModel))
    /\ Handler(stdout)
    /\ UNCHANGED <<sys_argv, fs, fs0, input_path, output_path, target_opset, model,
                   current_opset, input_size, output_size, stderr>>

\* Lines 72-84, os.path.getsize(output_path) returning, the report, and the
\* normal end of the script (exit status 0).
OutputSizeOk ==
    /\ pc = "output_size"
    /\ CanStat(output_path)
    /\ output_size' = fs[output_path].size
    /\ calls' = Append(calls, Call("getsize_output", NoModel, 0, TRUE, NoModel))
    /\ stdout' = stdout \o <<"Complete", "InputSize", "OutputSize", "TargetOpset", "NextSteps">>
    /\ exit_code' = 0
    /\ pc' = "exited"
    /\ UNCHANGED <<sys_argv, fs, fs0, input_path, output_path, target_opset, model,
                   current_opset, input_size, stderr>>

----------------------------------------------------------------------------
Next ==
    \/ MainUsage
    \/ MainBadOpset
    \/ MainArgs
    \/ LoadRaises
    \/ LoadOk
    \/ OpsetRaises
    \/ OpsetOk
    \/ ConvertSkip
    \/ ConvertRaises
    \/ \E sz \in Sizes : ConvertOk(sz)
    \/ SimplifyRaises
    \/ \E sz \in Sizes, check \in BOOLEAN : SimplifyReturns(sz, check)
    \/ ValidateRaises
    \/ ValidateOk
    \/ \E truncated \in BOOLEAN : SaveRaises(truncated)
    \/ SaveOk
    \/ InputSizeRaises
    \/ InputSizeOk
    \/ OutputSizeRaises
    \/ OutputSizeOk

Spec == Init /\ [][Next]_vars

----------------------------------------------------------------------------
(* Reading the record of library calls *)

CallsOf(fn) == { i \in DOMAIN calls : calls[i].fn = fn }

Exited == pc = "exited"

\* The model onnx.load returned.
Loaded == calls[1].ret

LoadSucceeded == calls # <<>> /\ calls[1].fn = "load" /\ calls[1].ok

\* The opset read at line 33 has been made and returned.
OpsetWasRead == LoadSucceeded /\ Loaded.opset_import # <<>> /\ pc # "opset"

DeclaredOpset == Loaded.opset_import[1]

\* The if statement of lines 36-38 is behind the interpreter.
PastConvert == OpsetWasRead /\ pc # "convert"

\* The except clause of __main__ ran: an exception left convert_model.
EscapedConvertModel == \E i \in DOMAIN stdout : stdout[i] = "Error"

\* The third positional argument is there and int() rejects it.
BadOpsetArg == Len(sys_argv) > 3 /\ ~ParseInt(sys_argv[4]).ok

\* The model the driver holds after a simplification attempt.
AfterSimplify(c) == IF c.ok THEN c.ret ELSE c.arg

Rank(fn) ==
    CASE fn = "load" -> 1
      [] fn = "convert_version" -> 2
      [] fn = "simplify" -> 3
      [] fn = "check_model" -> 4
      [] fn = "save" -> 5
      [] fn = "getsize_input" -> 6
      [] fn = "getsize_output" -> 7

----------------------------------------------------------------------------
(* Claims *)

\* C1: convert_version is called if and only if the opset read from the
\* loaded model is strictly greater than target_opset.  Once the if
\* statement is behind: no call when declared <= target, and then the model
\* handed to the simplifier is the loaded model (same opset metadata);
\* exactly one call when declared > target, made on the loaded model with
\* exactly target_opset as its argument.
C1_ConvertIffAbove ==
    /\ \A i \in CallsOf("convert_version") :
          /\ LoadSucceeded
          /\ DeclaredOpset > target_opset
          /\ calls[i].target = target_opset
          /\ calls[i].arg = Loaded
    /\ PastConvert =>
          Cardinality(CallsOf("convert_version")) =
              IF DeclaredOpset > target_opset THEN 1 ELSE 0
    /\ \A i \in CallsOf("simplify") :
          DeclaredOpset <= target_opset =>
              /\ calls[i].arg = Loaded
              /\ calls[i].arg.opset_import = Loaded.opset_import

\* C1 witness: a run with a typed target in which the conversion was made and
\* its result handed to the simplifier.
C1_Witness ==
    /\ Len(sys_argv) > 3
    /\ \E i \in CallsOf("convert_version"), j \in CallsOf("simplify") :
          /\ calls[i].ok
          /\ calls[i].target = target_opset
          /\ calls[j].arg = calls[i].ret

\* C1, the other case reached too: the declared opset equals the target, no
\* conversion, the simplifier has been called.
C1_WitnessSkip ==
    /\ LoadSucceeded
    /\ PastConvert
    /\ DeclaredOpset = target_opset
    /\ CallsOf("convert_version") = {}
    /\ CallsOf("simplify") # {}

\* C2: when onnxsim.simplify raises, convert_model does not raise because of
\* it: validation is the next call, then save, both on exactly the model that
\* was passed to the simplifier, and a completed save put that model on disk.
C2_SimplifyFailureTolerated ==
    \A i \in CallsOf("simplify") :
        ~calls[i].ok =>
            /\ pc = "validate" => (i = Len(calls) /\ model = calls[i].arg)
            /\ pc # "validate" =>
                  /\ i + 1 \in DOMAIN calls
                  /\ calls[i + 1].fn = "check_model"
                  /\ calls[i + 1].arg = calls[i].arg
            /\ pc \notin {"validate", "save"} =>
                  /\ i + 2 \in DOMAIN calls
                  /\ calls[i + 2].fn = "save"
                  /\ calls[i + 2].arg = calls[i].arg
                  /\ (calls[i + 2].ok /\ i + 2 = Len(calls)) =>
                        fs[output_path] = calls[i].arg

\* C2 witness: the simplifier raised and the run still ended with status 0,
\* the unsimplified model on disk.
C2_Witness ==
    /\ Exited
    /\ exit_code = 0
    /\ \E i \in CallsOf("simplify") :
          ~calls[i].ok /\ fs[output_path] = calls[i].arg

\* C3: when onnx.checker.check_model raises, convert_model does not raise
\* because of it: save is the next call, and whatever the validator's outcome
\* the model saved is the model the simplification step left.
C3_ValidationAdvisory ==
    \A i \in CallsOf("check_model") :
        /\ i - 1 \in CallsOf("simplify")
        /\ calls[i].arg = AfterSimplify(calls[i - 1])
        /\ pc = "save" => (i = Len(calls) /\ model = calls[i].arg)
        /\ pc # "save" =>
              /\ i + 1 \in DOMAIN calls
              /\ calls[i + 1].fn = "save"
              /\ calls[i + 1].arg = AfterSimplify(calls[i - 1])
              /\ (calls[i + 1].ok /\ i + 1 = Len(calls)) =>
                    fs[output_path] = AfterSimplify(calls[i - 1])

\* C3 witness: the validator raised and the model was saved all the same.
C3_Witness ==
    \E i \in CallsOf("check_model"), j \in CallsOf("save") :
        /\ ~calls[i].ok
        /\ calls[j].ok
        /\ fs[output_path] = calls[i].arg

\* C4: with fewer than 2 positional arguments the script prints the usage
\* text and exits with code 1 without any file I/O: no load, no save, no
\* size read, and the file system is as it was.
C4_UsageNoIO ==
    (Exited /\ Len(sys_argv) < 3) =>
        /\ stdout = <<"Usage", "Example">>
        /\ exit_code = 1
        /\ calls = <<>>
        /\ fs = fs0

\* C4 witness: the script has ended after being given one positional argument.
C4_Witness == Exited /\ Len(sys_argv) = 2 /\ stdout # <<>>

\* C5 as stated: the exit code is 1 when there is a usage error or when an
\* exception escapes convert_model, and 0 in every other case.
C5_AsStated ==
    Exited => (exit_code = 1 <=> (UsageError \/ EscapedConvertModel))

\* C5 amended: the exit code is 1 when there is a usage error, when the
\* third positional argument is not an integer literal (int() raises
\* ValueError outside the try block) or when an exception escapes
\* convert_model, and 0 in every other case.
C5_ExitCodes ==
    Exited =>
        /\ exit_code \in {0, 1}
        /\ exit_code = 1 <=> (UsageError \/ BadOpsetArg \/ EscapedConvertModel)

\* C5 witness: the process has ended on the ValueError of int().
C5_Witness ==
    /\ Exited
    /\ BadOpsetArg
    /\ ~UsageError
    /\ ~EscapedConvertModel
    /\ stderr # <<>>
    /\ exit_code = 1

\* C6: after a run that ends with exit code 0 (given at least 2 positional
\* arguments) save has completed exactly once, the output file exists, and
\* the model in it is the final model after the version-conversion and
\* simplification steps.
C6_SuccessMeansSaved ==
    (Exited /\ exit_code = 0 /\ Len(sys_argv) >= 3) =>
        /\ Cardinality(CallsOf("save")) = 1
        /\ \A j \in CallsOf("save") :
              /\ calls[j].ok
              /\ fs[output_path] = calls[j].arg
        /\ fs[output_path].kind = "model"
        /\ fs[output_path] = model
        /\ \E i \in CallsOf("simplify") :
              /\ fs[output_path] = AfterSimplify(calls[i])
              /\ calls[i].arg =
                    IF CallsOf("convert_version") = {} THEN Loaded
                    ELSE calls[i - 1].ret

\* C6 witness: a successful run that created an output file where there was
\* none, after a conversion and a simplification.
C6_Witness ==
    /\ Exited
    /\ exit_code = 0
    /\ output_path # input_path
    /\ fs0[output_path].kind = "none"
    /\ fs[output_path].graph = <<"converted", "simplified">>

\* C7: the library calls happen in the fixed order load, convert_version
\* (optional), simplify, check_model, save, getsize, getsize; each at most
\* once; a call is followed by another only if it returned or its exception
\* is one the driver catches; and save comes only after both the
\* simplification attempt and the validation attempt.
C7_LinearOrder ==
    /\ \A i, j \in DOMAIN calls : i < j => Rank(calls[i].fn) < Rank(calls[j].fn)
    /\ \A i \in DOMAIN calls :
          i < Len(calls) => (calls[i].ok \/ calls[i].fn \in {"simplify", "check_model"})
    /\ \A j \in CallsOf("save") :
          /\ j - 2 \in CallsOf("simplify")
          /\ j - 1 \in CallsOf("check_model")
    /\ \A i \in DOMAIN calls :
          i > 1 => Rank(calls[i].fn) - Rank(calls[i - 1].fn) \in
                      (IF calls[i].fn = "simplify" THEN {1, 2} ELSE {1})
    /\ calls # <<>> => calls[1].fn = "load"

\* C7 witness: a run in which all seven calls were made.
C7_Witness == Exited /\ Len(calls) = 7

\* C8: a failure of load, of the opset read or of convert_version is fatal:
\* an error message is printed, the exit code is 1, simplify, check_model and
\* save are never called and the file system is untouched.  A failure of
\* save also ends the process with a message and exit code 1, save having
\* been called once.
C8_FatalFailures ==
    /\ ( \/ \E i \in CallsOf("load") \cup CallsOf("convert_version") : ~calls[i].ok
         \/ (LoadSucceeded /\ Loaded.opset_import = <<>> /\ pc # "opset") ) =>
          /\ Exited
          /\ exit_code = 1
          /\ stdout # <<>> /\ stdout[Len(stdout)] = "Error"
          /\ CallsOf("simplify") \cup CallsOf("check_model") \cup CallsOf("save") = {}
          /\ fs = fs0
    /\ (\E j \in CallsOf("save") : ~calls[j].ok) =>
          /\ Exited
          /\ exit_code = 1
          /\ stdout # <<>> /\ stdout[Len(stdout)] = "Error"
          /\ Cardinality(CallsOf("save")) = 1

\* C8 witness: convert_version raised and the process has ended.
C8_Witness ==
    /\ Exited
    /\ \E i \in CallsOf("convert_version") : ~calls[i].ok

\* C8, the other fatal cases reached too.
C8_WitnessLoad == Exited /\ \E i \in CallsOf("load") : ~calls[i].ok

C8_WitnessOpset == Exited /\ LoadSucceeded /\ Loaded.opset_import = <<>>

C8_WitnessSave == Exited /\ \E j \in CallsOf("save") : ~calls[j].ok

\* C9: the driver falls back to the unsimplified model only when the
\* simplifier raises.  When it returns, the model it returned replaces the
\* current one and is the one validated and saved, whatever the check flag.
C9_ReturnedModelAdopted ==
    \A i \in CallsOf("simplify") :
        /\ pc = "validate" => model = AfterSimplify(calls[i])
        /\ i + 1 \in DOMAIN calls => calls[i + 1].arg = AfterSimplify(calls[i])
        /\ i + 2 \in DOMAIN calls => calls[i + 2].arg = AfterSimplify(calls[i])

\* C9 witness: the simplifier returned with check false and the model it
\* returned is the one on disk.
C9_Witness ==
    /\ \E k \in DOMAIN stdout : stdout[k] = "SimplifyIssues"
    /\ \E i \in CallsOf("simplify"), j \in CallsOf("save") :
          /\ calls[i].ok
          /\ calls[j].ok
          /\ calls[i].ret # calls[i].arg
          /\ fs[output_path] = calls[i].ret

\* C10: both sizes are read only after save has completed, and what save
\* wrote is never removed: the saved model stays at output_path also when the
\* process then exits with code 1; and with input_path = output_path the
\* input size read is the size of the saved file.
C10_SizesAfterSave ==
    /\ \A i \in CallsOf("getsize_input") \cup CallsOf("getsize_output") :
          \E j \in CallsOf("save") : j < i /\ calls[j].ok
    /\ pc \in {"input_size", "output_size"} =>
          \E j \in CallsOf("save") : calls[j].ok
    /\ \A j \in CallsOf("save") :
          calls[j].ok => fs[output_path] = calls[j].arg
    /\ \A i \in CallsOf("getsize_input") :
          (calls[i].ok /\ input_path = output_path) =>
              \E j \in CallsOf("save") : input_size = calls[j].arg.size

\* C10 witness: same path for input and output, the input size read is that
\* of the overwritten file and differs from the original's, then the second
\* size read failed: exit code 1 with the saved model in place.
C10_Witness ==
    /\ Exited
    /\ exit_code = 1
    /\ input_path = output_path
    /\ \E j \in CallsOf("save") : calls[j].ok /\ fs[output_path] = calls[j].arg
    /\ \E i \in CallsOf("getsize_input") : calls[i].ok
    /\ input_size = model.size
    /\ input_size # fs0[input_path].size

====
